---- MODULE Spec2Model ----
(***************************************************************************)
(* A model of the AI health analyzer's core: the text normalizer, the      *)
(* hybrid prediction engine (src/src/prediction_engine.py) and the         *)
(* recommendation deriver (src/src/recommendation.py).                     *)
(*                                                                         *)
(* Six specifications share the variables below:                           *)
(*   SpecPre  preprocess_symptoms applied once and twice to a string       *)
(*   SpecRec  generate_comprehensive_recommendations on a candidate list   *)
(*   SpecHyb  hybrid_prediction calls against a loaded engine              *)
(*   SpecApp  script runs of the Streamlit application (src/main.py)       *)
(*   SpecAuth signup and login (src/auth/auth.py, src/storage.py)          *)
(*   SpecSess the login session table (src/storage.py)                     *)
(* A specification leaves the variables of the others at their idle        *)
(* values.                                                                 *)
(***************************************************************************)
EXTENDS Integers, Sequences, FiniteSets, TLC

VARIABLES
    \* ---- text normalizer ----
    symptoms,               \* the string handed to preprocess_symptoms
    processed,              \* preprocess_symptoms(symptoms)
    reprocessed,            \* preprocess_symptoms(processed)
    pcPre,                  \* "idle" | "start" | "once" | "twice"
    \* ---- recommendation deriver ----
    predictions,            \* the candidate list handed to the deriver
    input_symptoms,         \* the symptom text handed to the deriver
    recommendations,        \* the returned bundle (a function on its keys)
    first_recommendations,  \* the bundle the first of two calls returned
    raised,                 \* the exception the call raised, or "none"
    now,                    \* the wall clock read by datetime.now()
    assessment,             \* what generate_severity_assessment returned, if called
    severity_warning,       \* what get_severity_warning returned, if called
    pcRec,                  \* "idle" | "start" | "done" | "again" | "assessed" | "warned"
    \* ---- hybrid prediction engine ----
    df,                     \* the catalog table (self.df)
    similarities,           \* cosine similarity of the query to each row
    probabilities,          \* predict_proba of the query, per label
    user_symptoms,          \* the query of the call (its vocabulary tokens)
    top_n,                  \* the top_n of the call
    similarity_predictions, \* result of predict_diseases_similarity
    ml_predictions,         \* result of predict_diseases_ml
    final_predictions,      \* result of hybrid_prediction
    first_predictions,      \* result of the first call with these arguments
    calls,                  \* number of hybrid_prediction calls made
    pcHyb,                  \* "idle" | "ready" | "done"
    \* ---- application ----
    catalog_present,        \* data/sample_data.csv exists
    authenticated,          \* auth_manager.is_authenticated()
    models,                 \* cached load_models(): "unloaded" | "none" | "loaded"
    construction,           \* HealthPredictor(): "not_run" | "ok" | an exception
    st_predictions,         \* st.session_state.predictions (None or Some(list))
    st_recommendations,     \* st.session_state.recommendations (None or Some(dict))
    st_user_symptoms,       \* st.session_state.user_symptoms
    engine_result,          \* what hybrid_prediction returned in the last run, if called
    engine_calls,           \* number of hybrid_prediction calls of the process
    page,                   \* what the last script run rendered
    app_raised,             \* the exception that ended the last run, or "none"
    session_record,         \* the stored HealthSession row, if any
    \* ---- accounts and login sessions ----
    users,                  \* the users table, in id order
    user_sessions,          \* the user_sessions table (a set of rows)
    auth_now,               \* the wall clock read by datetime.now()
    tokens_issued,          \* number of tokens secrets.token_urlsafe has drawn
    dead,                   \* tokens invalidated, or found expired and deactivated
    auth_returned           \* the last call of the account API and what it returned

varsPre == <<symptoms, processed, reprocessed, pcPre>>
varsRec == <<predictions, input_symptoms, recommendations,
             first_recommendations, raised, now, assessment,
             severity_warning, pcRec>>
varsHyb == <<df, similarities, probabilities, user_symptoms, top_n,
             similarity_predictions, ml_predictions, final_predictions,
             first_predictions, calls, pcHyb>>
varsApp == <<catalog_present, authenticated, models, construction,
             st_predictions, st_recommendations, st_user_symptoms,
             engine_result, engine_calls, page, app_raised, session_record>>
varsAuth == <<users, user_sessions, auth_now, tokens_issued, dead, auth_returned>>
vars == <<varsPre, varsRec, varsHyb, varsApp, varsAuth>>

(***************************************************************************)
(* Generic helpers                                                         *)
(***************************************************************************)
Range(s) == {s[i] : i \in 1..Len(s)}

SeqsUpTo(S, n) == UNION {[1..k -> S] : k \in 0..n}

RECURSIVE SumSeq(_)
SumSeq(s) == IF s = <<>> THEN 0 ELSE Head(s) + SumSeq(Tail(s))

\* list(dict.fromkeys(s)): drop repeats, keep first-seen order
RECURSIVE DictFromKeys(_)
DictFromKeys(s) ==
    IF s = <<>> THEN <<>>
    ELSE LET init == DictFromKeys(SubSeq(s, 1, Len(s) - 1))
             last == s[Len(s)]
         IN IF last \in Range(init) THEN init ELSE Append(init, last)

\* s[:n] for n >= 0
\* Python's None and a value that is not None
None == <<>>
Some(v) == <<v>>

Take(s, n) == SubSeq(s, 1, IF n < Len(s) THEN n ELSE Len(s))

(***************************************************************************)
(* Part 1: the text normalizer, HealthPredictor.preprocess_symptoms        *)
(* A string is a sequence of one-character strings.                        *)
(***************************************************************************)
MaxStrLen == 4

\* one lowercase letter, one uppercase letter, two whitespace characters,
\* the semicolon separator and a punctuation character
Alphabet == {"f", "F", " ", "\t", ";", ","}

Strings == SeqsUpTo(Alphabet, MaxStrLen)

IsSpace(c) == c \in {" ", "\t"}              \* \s
IsWord(c) == c \in {"f", "F"}               \* \w

\* str.replace(';', ' ')
ReplaceSemicolon(s) == [i \in 1..Len(s) |-> IF s[i] = ";" THEN " " ELSE s[i]]

\* str.lower()
LowerChar(c) == IF c = "F" THEN "f" ELSE c
Lower(s) == [i \in 1..Len(s) |-> LowerChar(s[i])]

\* str.strip(): drop leading and trailing whitespace
RECURSIVE LStrip(_)
LStrip(s) == IF s # <<>> /\ IsSpace(Head(s)) THEN LStrip(Tail(s)) ELSE s

RECURSIVE RStrip(_)
RStrip(s) ==
    IF s # <<>> /\ IsSpace(s[Len(s)]) THEN RStrip(SubSeq(s, 1, Len(s) - 1))
    ELSE s

Strip(s) == RStrip(LStrip(s))

\* re.sub(r'[^\w\s]', '', s): delete what is neither word nor whitespace
RECURSIVE RemoveSpecial(_)
RemoveSpecial(s) ==
    IF s = <<>> THEN <<>>
    ELSE IF IsWord(Head(s)) \/ IsSpace(Head(s))
         THEN <<Head(s)>> \o RemoveSpecial(Tail(s))
         ELSE RemoveSpecial(Tail(s))

\* the .strip() is missing
preprocess_symptoms_unstripped(s) == RemoveSpecial(Lower(ReplaceSemicolon(s)))

preprocess_symptoms(s) == RemoveSpecial(Strip(Lower(ReplaceSemicolon(s))))

Normalize ==
    /\ pcPre = "start"
    /\ processed' = preprocess_symptoms(symptoms)
    /\ pcPre' = "once"
    /\ UNCHANGED <<symptoms, reprocessed, varsRec, varsHyb, varsApp, varsAuth>>

NormalizeAgain ==
    /\ pcPre = "once"
    /\ reprocessed' = preprocess_symptoms(processed)
    /\ pcPre' = "twice"
    /\ UNCHANGED <<symptoms, processed, varsRec, varsHyb, varsApp, varsAuth>>

(***************************************************************************)
(* Part 2: the recommendation deriver, HealthRecommendationSystem          *)
(*                                                                         *)
(* A disease name is a sequence of words (joined by single spaces).  No    *)
(* keyword of the deriver's rules contains a space, so a keyword is a      *)
(* substring of the lowercased name iff it is a substring of one of its    *)
(* lowercased words; KeywordsIn tabulates that per word.                   *)
(* A comma-delimited text field is the sequence of its pieces between      *)
(* commas; a piece is its stripped body and whether blanks surround it.    *)
(* Emoji markers of the source are written as ASCII tags.                  *)
(***************************************************************************)
MaxCands == 3
MaxClock == 1

Tiers == {"Mild", "Moderate", "Severe"}

\* a severity the catalog file may carry that is no tier of the deriver
Severities == Tiers \cup {"Critical"}

RuleKeywords == {"heart", "cardiac", "stroke", "asthma", "diabetes",
                 "cold", "flu", "headache", "migraine", "stomach", "gastro"}

\* the rule keywords that are substrings of word.lower()
KeywordsIn(word) ==
    CASE word = "Cold"            -> {"cold"}
      [] word = "Cardiac"         -> {"cardiac"}
      [] word = "Stroke"          -> {"stroke"}
      [] word = "Migraine"        -> {"migraine"}
      [] word = "Influenza"       -> {"flu"}
      [] word = "Gastroenteritis" -> {"gastro"}
      [] word = "Asthma"          -> {"asthma"}
      [] word = "Diabetes"        -> {"diabetes"}
      [] word = "Heartburn"       -> {"heart"}
      [] OTHER                    -> {}

\* kw in disease.lower()
Contains(disease, kw) == \E i \in 1..Len(disease) : kw \in KeywordsIn(disease[i])

Piece(body, padded) == [body |-> body, padded |-> padded]
Text(pieces) == [isna |-> FALSE, pieces |-> pieces]
NaN == [isna |-> TRUE, pieces |-> <<>>]
\* "".split(',') is ['']
EmptyText == Text(<<Piece("", FALSE)>>)

\* the catalog rows the candidates are drawn from
SampleRecords ==
    { [disease |-> <<"Common", "Cold">>,
       precautions |-> Text(<<Piece("rest", FALSE), Piece("fluids", TRUE)>>),
       diet_recommendations |-> Text(<<Piece("soup", FALSE), Piece("tea", TRUE)>>)],
      [disease |-> <<"Migraine">>,
       precautions |-> Text(<<Piece("rest", FALSE), Piece("", TRUE), Piece("dark room", TRUE)>>),
       diet_recommendations |-> Text(<<Piece("soup", FALSE), Piece("fruit", TRUE), Piece("rice", TRUE)>>)],
      [disease |-> <<"Cardiac", "Stroke">>,
       precautions |-> NaN,
       diet_recommendations |-> EmptyText],
      [disease |-> <<"Diabetes">>,
       precautions |-> Text(<<Piece("monitor sugar", FALSE)>>),
       diet_recommendations |-> Text(<<Piece("tea", TRUE)>>)] }

Candidates ==
    { [disease |-> r.disease, severity |-> s, precautions |-> r.precautions,
       diet_recommendations |-> r.diet_recommendations] :
      r \in SampleRecords, s \in Severities }

SymptomTexts == {"", "fever, cough"}

\* self.severity_actions
severity_actions ==
    [Mild |-> [urgency |-> "Low Priority",
               action |-> "Monitor symptoms and try self-care measures",
               timeframe |-> "If symptoms persist for more than 3-5 days",
               color |-> "green"],
     Moderate |-> [urgency |-> "Medium Priority",
               action |-> "Consider scheduling an appointment with healthcare provider",
               timeframe |-> "If symptoms persist for more than 24-48 hours or worsen",
               color |-> "yellow"],
     Severe |-> [urgency |-> "HIGH PRIORITY",
               action |-> "Seek immediate medical attention",
               timeframe |-> "Contact healthcare provider immediately or visit emergency room",
               color |-> "red"]]

\* self.general_health_tips
general_health_tips ==
    << "Stay well-hydrated", "Ensure adequate rest and sleep",
       "Maintain light physical activity", "Practice stress management",
       "Avoid smoking and limit alcohol", "Maintain good hygiene practices",
       "Monitor your symptoms", "Keep emergency contacts available" >>

\* severity_priority.get(x, 0)
severity_priority(x) ==
    CASE x = "Severe" -> 3 [] x = "Moderate" -> 2 [] x = "Mild" -> 1 [] OTHER -> 0

\* max(severities, key=...): the first element of maximal key
MaxByPriority(severities) ==
    LET best == CHOOSE i \in 1..Len(severities) :
                   /\ \A j \in 1..Len(severities) :
                        severity_priority(severities[j]) <= severity_priority(severities[i])
                   /\ \A j \in 1..(i - 1) :
                        severity_priority(severities[j]) < severity_priority(severities[i])
    IN severities[best]

\* the severity of the rank-0 candidate instead of the maximum
highest_severity_of_top(preds) == preds[1].severity

highest_severity(preds) == MaxByPriority([i \in 1..Len(preds) |-> preds[i].severity])

\* self.severity_actions[highest_severity] raises KeyError
SeverityAssessmentRaises(preds) ==
    preds # <<>> /\ highest_severity(preds) \notin DOMAIN severity_actions

\* an empty list is assessed like a Mild one
generate_severity_assessment_mild(preds) ==
    LET overall == IF preds = <<>> THEN "Mild" ELSE highest_severity(preds)
    IN [overall_severity |-> overall,
        recommendation |-> severity_actions[overall].action,
        urgency |-> severity_actions[overall].urgency,
        timeframe |-> severity_actions[overall].timeframe,
        color |-> severity_actions[overall].color]

generate_severity_assessment(preds) ==
    IF preds = <<>>
    THEN [overall_severity |-> "Unknown",
          recommendation |-> "Unable to assess. Please consult a healthcare provider.",
          urgency |-> "Consult healthcare provider",
          color |-> "white"]
    ELSE LET severity_info == severity_actions[highest_severity(preds)]
         IN [overall_severity |-> highest_severity(preds),
             recommendation |-> severity_info.action,
             urgency |-> severity_info.urgency,
             timeframe |-> severity_info.timeframe,
             color |-> severity_info.color]

NonEmptyBody(b) == b # ""

parse_recommendations(recommendation_text) ==
    IF recommendation_text.isna \/ recommendation_text = EmptyText
    THEN <<>>
    ELSE SelectSeq([i \in 1..Len(recommendation_text.pieces) |->
                        recommendation_text.pieces[i].body], NonEmptyBody)

\* for x in items: if x not in acc: acc.append(marker + x)
RECURSIVE AppendMarked(_, _, _)
AppendMarked(acc, items, marker) ==
    IF items = <<>> THEN acc
    ELSE AppendMarked(IF Head(items) \notin Range(acc)
                      THEN Append(acc, marker \o Head(items)) ELSE acc,
                      Tail(items), marker)

RECURSIVE CollectPrecautions(_, _)
CollectPrecautions(acc, preds) ==
    IF preds = <<>> THEN acc
    ELSE CollectPrecautions(
            AppendMarked(acc, parse_recommendations(Head(preds).precautions), "(!) "),
            Tail(preds))

\* the general tips do not depend on the severity
generate_lifestyle_recommendations_four(preds) ==
    IF preds = <<>> THEN <<>>
    ELSE CollectPrecautions(<<>>, preds) \o SubSeq(general_health_tips, 1, 4)

generate_lifestyle_recommendations(preds) ==
    IF preds = <<>> THEN <<>>
    ELSE LET lifestyle_recs == CollectPrecautions(<<>>, preds)
             severity_assessment == generate_severity_assessment(preds)
         IN IF severity_assessment.overall_severity \in {"Mild", "Moderate"}
            THEN lifestyle_recs \o SubSeq(general_health_tips, 1, 4)
            ELSE lifestyle_recs \o SubSeq(general_health_tips, 1, 2)

RECURSIVE CollectDiet(_, _)
CollectDiet(acc, preds) ==
    IF preds = <<>> THEN acc
    ELSE CollectDiet(
            AppendMarked(acc, parse_recommendations(Head(preds).diet_recommendations), "(diet) "),
            Tail(preds))

general_dietary_tips ==
    << "Eat a balanced diet", "Consider vitamin supplements",
       "Natural remedies may help", "Avoid foods that worsen your condition" >>

generate_dietary_recommendations(preds) ==
    IF preds = <<>> THEN <<>>
    ELSE LET dietary_recs == CollectDiet(<<>>, preds)
         IN IF Len(dietary_recs) < 3
            THEN dietary_recs \o SubSeq(general_dietary_tips, 1, 2)
            ELSE dietary_recs

general_warning_signs ==
    << "Difficulty breathing", "Chest pain or pressure", "High fever",
       "Severe dehydration", "Persistent vomiting", "Severe abdominal pain",
       "Signs of infection", "Loss of consciousness or confusion" >>

\* the if/elif chain on one disease name
SpecificWarning(disease) ==
    IF Contains(disease, "heart") \/ Contains(disease, "cardiac")
    THEN <<"Chest pain radiating to arm, jaw, or back">>
    ELSE IF Contains(disease, "stroke")
    THEN <<"Sudden weakness, speech difficulty, or vision problems">>
    ELSE IF Contains(disease, "asthma")
    THEN <<"Severe difficulty breathing or wheezing">>
    ELSE IF Contains(disease, "diabetes")
    THEN <<"Extremely high or low blood sugar levels">>
    ELSE <<>>

RECURSIVE specific_warnings(_)
specific_warnings(preds) ==
    IF preds = <<>> THEN <<>>
    ELSE SpecificWarning(Head(preds).disease) \o specific_warnings(Tail(preds))

generate_warning_signs(preds) ==
    IF preds = <<>> THEN <<>>
    ELSE DictFromKeys(specific_warnings(preds) \o SubSeq(general_warning_signs, 1, 5))

SeekAttention == "Seek immediate medical attention - self-care not appropriate for severe conditions"

\* the if/elif chain of condition-specific self-care tips
ConditionTips(disease) ==
    IF Contains(disease, "cold") \/ Contains(disease, "flu")
    THEN <<"Use a humidifier", "Drink warm beverages", "Gargle with warm salt water">>
    ELSE IF Contains(disease, "headache") \/ Contains(disease, "migraine")
    THEN <<"Rest in a dark, quiet room", "Apply cold or warm compress", "Try gentle massage">>
    ELSE IF Contains(disease, "stomach") \/ Contains(disease, "gastro")
    THEN <<"Follow BRAT diet", "Sip clear fluids frequently", "Use heating pad">>
    ELSE <<>>

\* the Severe message is appended to the collected tips instead of
\* replacing them
RECURSIVE SelfCareLoop_append(_, _)
SelfCareLoop_append(tips, preds) ==
    IF preds = <<>> THEN tips
    ELSE IF Head(preds).severity = "Severe"
         THEN Append(tips \o ConditionTips(Head(preds).disease), SeekAttention)
         ELSE SelfCareLoop_append(tips \o ConditionTips(Head(preds).disease), Tail(preds))

\* the loop body: extend, then replace everything and break on Severe
RECURSIVE SelfCareLoop(_, _)
SelfCareLoop(tips, preds) ==
    IF preds = <<>> THEN tips
    ELSE IF Head(preds).severity = "Severe"
         THEN <<SeekAttention>>
         ELSE SelfCareLoop(tips \o ConditionTips(Head(preds).disease), Tail(preds))

generate_self_care_tips(preds) ==
    IF preds = <<>> THEN <<>> ELSE DictFromKeys(SelfCareLoop(<<>>, preds))

generate_followup_recommendations(preds) ==
    LET severity_assessment == generate_severity_assessment(preds)
    IN IF severity_assessment.overall_severity = "Severe"
       THEN <<"Seek immediate emergency medical care",
              "Call emergency services if symptoms are life-threatening",
              "Follow up with specialists as recommended">>
       ELSE IF severity_assessment.overall_severity = "Moderate"
       THEN <<"Schedule appointment with primary care physician within 24-48 hours",
              "Consider getting relevant tests or screenings",
              "Keep a symptom diary to track changes",
              "Follow prescribed treatment plan if applicable">>
       ELSE <<"Monitor symptoms for 3-5 days",
              "Schedule routine check-up if symptoms persist",
              "Consider telehealth consultation if available",
              "Research reputable health information sources">>

generate_disclaimer ==
    [title |-> "IMPORTANT MEDICAL DISCLAIMER",
     content |-> <<"informational purposes only", "consult professionals",
                   "call emergency services", "not a replacement">>]

FullBundle(preds, text, clock) ==
    [timestamp |-> clock,
     input_symptoms |-> text,
     severity_assessment |-> generate_severity_assessment(preds),
     lifestyle_recommendations |-> generate_lifestyle_recommendations(preds),
     dietary_recommendations |-> generate_dietary_recommendations(preds),
     self_care_tips |-> generate_self_care_tips(preds),
     warning_signs |-> generate_warning_signs(preds),
     followup_recommendations |-> generate_followup_recommendations(preds),
     disclaimer |-> generate_disclaimer]

ErrorBundle ==
    [error |-> "No predictions available to generate recommendations",
     general_advice |-> "Please consult with a healthcare provider for proper evaluation."]

\* the empty-list guard is missing
generate_comprehensive_recommendations_unguarded(preds, text, clock) ==
    FullBundle(preds, text, clock)

\* the guard also catches one-candidate lists
generate_comprehensive_recommendations_short(preds, text, clock) ==
    IF Len(preds) <= 1 THEN ErrorBundle ELSE FullBundle(preds, text, clock)

\* the bundle returned when the call does not raise
generate_comprehensive_recommendations(preds, text, clock) ==
    IF preds = <<>> THEN ErrorBundle ELSE FullBundle(preds, text, clock)

\* no bundle: the call has not returned
NoBundle == <<>>

\* the call sorts the caller's list in place
predictions_after_call_reversed(preds) == [i \in 1..Len(preds) |-> preds[Len(preds) + 1 - i]]

\* the candidate list after a call: the deriver only reads it (max, list
\* comprehensions and loops over it, no in-place operation)
predictions_after_call(preds) == preds

\* time passes before a call
Tick ==
    /\ pcRec \in {"start", "done"}
    /\ now < MaxClock
    /\ now' = now + 1
    /\ UNCHANGED <<predictions, input_symptoms, recommendations,
                   first_recommendations, raised, assessment,
                   severity_warning, pcRec>>
    /\ UNCHANGED <<varsPre, varsHyb, varsApp, varsAuth>>

\* the effect of generate_comprehensive_recommendations(predictions,
\* input_symptoms) on the caller's variables
Call ==
    /\ IF SeverityAssessmentRaises(predictions)
       THEN /\ raised' = "KeyError"
            /\ recommendations' = NoBundle
       ELSE /\ raised' = "none"
            /\ recommendations' =
                 generate_comprehensive_recommendations(predictions, input_symptoms, now)
    /\ predictions' = predictions_after_call(predictions)
    /\ UNCHANGED <<input_symptoms, now, assessment, severity_warning>>

\* the first call
Recommend ==
    /\ pcRec = "start"
    /\ Call
    /\ first_recommendations' = recommendations'
    /\ pcRec' = "done"
    /\ UNCHANGED <<varsPre, varsHyb, varsApp, varsAuth>>

\* a second call with the same arguments
RecommendAgain ==
    /\ pcRec = "done"
    /\ Call
    /\ pcRec' = "again"
    /\ UNCHANGED first_recommendations
    /\ UNCHANGED <<varsPre, varsHyb, varsApp, varsAuth>>

\* a caller asks for the severity assessment of the list alone
Assess ==
    /\ pcRec = "start"
    /\ IF SeverityAssessmentRaises(predictions)
       THEN /\ raised' = "KeyError"
            /\ assessment' = None
       ELSE /\ raised' = "none"
            /\ assessment' = Some(generate_severity_assessment(predictions))
    /\ pcRec' = "assessed"
    /\ UNCHANGED <<predictions, input_symptoms, recommendations,
                   first_recommendations, now, severity_warning>>
    /\ UNCHANGED <<varsPre, varsHyb, varsApp, varsAuth>>

\* HealthPredictor.get_severity_warning's message table
severity_warnings ==
    [Mild |-> "Low concern - Monitor symptoms and consider self-care measures.",
     Moderate |-> "Moderate concern - Consider consulting a healthcare provider if symptoms persist or worsen.",
     Severe |-> "HIGH CONCERN - Seek immediate medical attention. This could be a serious condition."]

\* the warning follows the most severe candidate
get_severity_warning_of_max(preds) ==
    IF preds = <<>> THEN "No matching conditions found."
    ELSE IF highest_severity(preds) \in DOMAIN severity_warnings
         THEN severity_warnings[highest_severity(preds)]
         ELSE "Please monitor your symptoms carefully."

\* HealthPredictor.get_severity_warning(predictions)
get_severity_warning(preds) ==
    IF preds = <<>> THEN "No matching conditions found."
    ELSE LET highest == preds[1].severity
         IN IF highest \in DOMAIN severity_warnings
            THEN severity_warnings[highest]
            ELSE "Please monitor your symptoms carefully."

\* the caller of the deriver also asks the engine for the severity
\* warning of the same list
GetSeverityWarning ==
    /\ pcRec = "done"
    /\ severity_warning' = Some(get_severity_warning(predictions))
    /\ pcRec' = "warned"
    /\ UNCHANGED <<predictions, input_symptoms, recommendations,
                   first_recommendations, raised, now, assessment>>
    /\ UNCHANGED <<varsPre, varsHyb, varsApp, varsAuth>>

(***************************************************************************)
(* Part 3: the hybrid prediction engine, HealthPredictor                   *)
(*                                                                         *)
(* Numbers are fixed-point integers.  A similarity or a probability is an  *)
(* integer number of 1e-5 (One is 1.0).  A scorer's confidence is a        *)
(* percentage with two decimals: an integer number of 0.01 %.  A combined  *)
(* score (confidence * 0.6 + confidence * 0.4) is an integer number of     *)
(* 0.001 %.  6 * S + 4 * C is even, so the final rounding never meets a    *)
(* tie and the floating-point error of the source cannot change it.        *)
(*                                                                         *)
(* The vectorizer, the cosine similarity and the random forest are library *)
(* code.  Their answer to the query of the behaviour is part of the engine *)
(* state fixed when the engine is built: `similarities' (positive exactly  *)
(* for the catalog rows that share a vocabulary token with the query) and  *)
(* `probabilities' (a distribution over the encoded labels).               *)
(***************************************************************************)
Grid == 4
MaxTopN == 3
MaxCalls == 2

\* 100 % in units of 0.01 % (confidence = round(value * 100, 2))
Percent100 == 10000

\* 1.0 in units of 1e-5
One == 10 * Percent100

\* probabilities[idx] > 0.01
MlThreshold == 1000

SimilarityWeight == 6
MlWeight == 4

\* round(x / 10) to an integer, ties to even, as Python's round(_, 2)
RoundTenth(x) ==
    LET q == x \div 10
        r == x % 10
    IN IF r < 5 THEN q
       ELSE IF r > 5 THEN q + 1
       ELSE IF q % 2 = 0 THEN q ELSE q + 1

\* every disease label of the sample catalogs, in sorted (np.unique) order
LabelOrder == <<"Asthma", "Cold", "Flu">>

SeverityOfRow(i) ==
    CASE i % 3 = 1 -> "Mild" [] i % 3 = 2 -> "Severe" [] OTHER -> "Moderate"

\* row i of a catalog: its own symptom token i, and fields that tell the
\* rows apart
Row(name, i) ==
    [Disease |-> name,
     Symptoms |-> {i},
     Severity |-> SeverityOfRow(i),
     Precautions |-> "precautions of row " \o ToString(i),
     Diet_Recommendations |-> "diet of row " \o ToString(i),
     Description |-> "description of row " \o ToString(i)]

CatalogOf(names) == [i \in 1..Len(names) |-> Row(names[i], i)]

\* label order = row order; label order # row order; a repeated disease
\* name; the two-row catalog
SampleCatalogs ==
    { CatalogOf(<<"Asthma", "Cold", "Flu">>),
      CatalogOf(<<"Flu", "Cold", "Asthma">>),
      CatalogOf(<<"Cold", "Flu", "Cold">>),
      CatalogOf(<<"Flu", "Cold">>) }

\* the vectorizer's vocabulary: the tokens of the catalog's symptom texts
Vocabulary(cat) == UNION {cat[i].Symptoms : i \in 1..Len(cat)}

\* token 0 is a word outside every vocabulary
Tokens == 0..3

Queries == SUBSET Tokens

GridLevels == {(One * k) \div Grid : k \in 0..Grid}

SimLevels == GridLevels

\* cosine_similarity(transform(q), symptom_vectors): zero exactly for the
\* rows without a common token
SimilarityVectors(cat, q) ==
    {v \in [1..Len(cat) -> SimLevels] :
        \A i \in 1..Len(cat) : (v[i] > 0) <=> (cat[i].Symptoms \cap q # {})}

\* label_encoder.classes_: the distinct disease names, sorted
IsLabelOf(cat, name) == \E i \in 1..Len(cat) : cat[i].Disease = name

RECURSIVE FilterLabels(_, _)
FilterLabels(cat, names) ==
    IF names = <<>> THEN <<>>
    ELSE IF IsLabelOf(cat, Head(names))
         THEN <<Head(names)>> \o FilterLabels(cat, Tail(names))
         ELSE FilterLabels(cat, Tail(names))

classes(cat) == FilterLabels(cat, LabelOrder)

ProbaLevels == GridLevels \cup {MlThreshold, MlThreshold + 1,
                                One - MlThreshold, One - MlThreshold - 1}

\* model.predict_proba(user_vector)[0]: non-negative, summing to 1 up to
\* the resolution
ProbabilityVectors(cat) ==
    {v \in [1..Len(classes(cat)) -> ProbaLevels] :
        SumSeq(v) \in (One - Len(classes(cat)))..One}

\* ---- np.argsort(v)[::-1] ----
\* np.argsort sorts ascending and keeps the order of equal keys on arrays
\* this short (insertion sort); [::-1] then reverses the whole order.
RECURSIVE InsertAscending(_, _, _)
InsertAscending(sorted, idx, v) ==
    IF sorted = <<>> THEN <<idx>>
    ELSE IF v[sorted[Len(sorted)]] <= v[idx]
         THEN Append(sorted, idx)
         ELSE Append(InsertAscending(SubSeq(sorted, 1, Len(sorted) - 1), idx, v),
                     sorted[Len(sorted)])

RECURSIVE ArgsortUpTo(_, _)
ArgsortUpTo(v, n) ==
    IF n = 0 THEN <<>> ELSE InsertAscending(ArgsortUpTo(v, n - 1), n, v)

argsort(v) == ArgsortUpTo(v, Len(v))

Reverse(s) == [i \in 1..Len(s) |-> s[Len(s) + 1 - i]]

top_indices(v, n) == Take(Reverse(argsort(v)), n)

Prediction(name, confidence, disease_info) ==
    [disease |-> name,
     confidence |-> confidence,
     severity |-> disease_info.Severity,
     precautions |-> disease_info.Precautions,
     diet_recommendations |-> disease_info.Diet_Recommendations,
     description |-> disease_info.Description,
     matched_symptoms |-> disease_info.Symptoms]

\* calculate_similarity_scores(user_symptoms)
calculate_similarity_scores == similarities

RECURSIVE SimilarityLoop(_, _, _)
SimilarityLoop(cat, sims, indices) ==
    IF indices = <<>> THEN <<>>
    ELSE LET idx == Head(indices)
             rest == SimilarityLoop(cat, sims, Tail(indices))
         IN IF sims[idx] > 0
            THEN <<Prediction(cat[idx].Disease, RoundTenth(sims[idx]), cat[idx])>> \o rest
            ELSE rest

predict_diseases_similarity(n) ==
    SimilarityLoop(df, calculate_similarity_scores,
                   top_indices(calculate_similarity_scores, n))

\* a classifier that draws anew at each inference
predict_proba_unseeded == IF calls = 0 THEN probabilities ELSE Reverse(probabilities)

\* self.model.predict_proba(user_vector)[0]
predict_proba == probabilities

\* self.df[self.df['Disease'] == disease_name].iloc[0]
FirstRowOf(cat, name) ==
    cat[CHOOSE i \in 1..Len(cat) :
            /\ cat[i].Disease = name
            /\ \A j \in 1..(i - 1) : cat[j].Disease # name]

\* the threshold test lets a probability of exactly 0.01 through
RECURSIVE MlLoop_inclusive(_, _, _)
MlLoop_inclusive(cat, probs, indices) ==
    IF indices = <<>> THEN <<>>
    ELSE LET idx == Head(indices)
             rest == MlLoop_inclusive(cat, probs, Tail(indices))
             disease_name == classes(cat)[idx]
         IN IF probs[idx] >= MlThreshold
            THEN <<Prediction(disease_name, RoundTenth(probs[idx]),
                              FirstRowOf(cat, disease_name))>> \o rest
            ELSE rest

RECURSIVE MlLoop(_, _, _)
MlLoop(cat, probs, indices) ==
    IF indices = <<>> THEN <<>>
    ELSE LET idx == Head(indices)
             rest == MlLoop(cat, probs, Tail(indices))
             disease_name == classes(cat)[idx]
         IN IF probs[idx] > MlThreshold
            THEN <<Prediction(disease_name, RoundTenth(probs[idx]),
                              FirstRowOf(cat, disease_name))>> \o rest
            ELSE rest

predict_diseases_ml(n) == MlLoop(df, predict_proba, top_indices(predict_proba, n))

\* ---- combined_scores: an insertion-ordered dict, as a sequence of
\* [disease, info, score] ----
HasKey(scores, disease) == \E i \in 1..Len(scores) : scores[i].disease = disease

\* a repeated name adds to the score instead of replacing the entry
SetSimilarity_accumulate(scores, pred) ==
    IF HasKey(scores, pred.disease)
    THEN [i \in 1..Len(scores) |->
             IF scores[i].disease = pred.disease
             THEN [scores[i] EXCEPT !.score = @ + pred.confidence * SimilarityWeight]
             ELSE scores[i]]
    ELSE Append(scores, [disease |-> pred.disease, info |-> pred,
                         score |-> pred.confidence * SimilarityWeight])

\* the combined scores are a list of entries, not a dict keyed by name
SetSimilarity_append(scores, pred) ==
    Append(scores, [disease |-> pred.disease, info |-> pred,
                    score |-> pred.confidence * SimilarityWeight])

\* combined_scores[disease] = {'info': pred, 'score': pred['confidence'] * 0.6}
SetSimilarity(scores, pred) ==
    LET entry == [disease |-> pred.disease, info |-> pred,
                  score |-> pred.confidence * SimilarityWeight]
    IN IF HasKey(scores, pred.disease)
       THEN [i \in 1..Len(scores) |->
                IF scores[i].disease = pred.disease THEN entry ELSE scores[i]]
       ELSE Append(scores, entry)

\* = instead of +=
AddMl_overwrite(scores, pred) ==
    IF HasKey(scores, pred.disease)
    THEN [i \in 1..Len(scores) |->
             IF scores[i].disease = pred.disease
             THEN [scores[i] EXCEPT !.score = pred.confidence * MlWeight]
             ELSE scores[i]]
    ELSE Append(scores, [disease |-> pred.disease, info |-> pred,
                         score |-> pred.confidence * MlWeight])

\* the classifier's entry also replaces the record
AddMl_replaces_info(scores, pred) ==
    IF HasKey(scores, pred.disease)
    THEN [i \in 1..Len(scores) |->
             IF scores[i].disease = pred.disease
             THEN [scores[i] EXCEPT !.score = @ + pred.confidence * MlWeight,
                                    !.info = pred]
             ELSE scores[i]]
    ELSE Append(scores, [disease |-> pred.disease, info |-> pred,
                         score |-> pred.confidence * MlWeight])

\* the missing source is filled in with the other source's confidence
AddMl_fills_missing(scores, pred) ==
    IF HasKey(scores, pred.disease)
    THEN [i \in 1..Len(scores) |->
             IF scores[i].disease = pred.disease
             THEN [scores[i] EXCEPT !.score = @ + pred.confidence * MlWeight]
             ELSE scores[i]]
    ELSE Append(scores, [disease |-> pred.disease, info |-> pred,
                         score |-> pred.confidence * (MlWeight + SimilarityWeight)])

\* += pred['confidence'] * 0.4, or a new entry
AddMl(scores, pred) ==
    IF HasKey(scores, pred.disease)
    THEN [i \in 1..Len(scores) |->
             IF scores[i].disease = pred.disease
             THEN [scores[i] EXCEPT !.score = @ + pred.confidence * MlWeight]
             ELSE scores[i]]
    ELSE Append(scores, [disease |-> pred.disease, info |-> pred,
                         score |-> pred.confidence * MlWeight])

RECURSIVE SimilarityPass(_, _)
SimilarityPass(scores, preds) ==
    IF preds = <<>> THEN scores
    ELSE SimilarityPass(SetSimilarity(scores, Head(preds)), Tail(preds))

RECURSIVE MlPass(_, _)
MlPass(scores, preds) ==
    IF preds = <<>> THEN scores
    ELSE MlPass(AddMl(scores, Head(preds)), Tail(preds))

combined_scores(sim_preds, ml_preds) == MlPass(SimilarityPass(<<>>, sim_preds), ml_preds)

\* a descending sort that puts the later of two equal scores first
RECURSIVE InsertDescending_unstable(_, _)
InsertDescending_unstable(sorted, e) ==
    IF sorted = <<>> THEN <<e>>
    ELSE IF sorted[Len(sorted)].score > e.score
         THEN Append(sorted, e)
         ELSE Append(InsertDescending_unstable(SubSeq(sorted, 1, Len(sorted) - 1), e),
                     sorted[Len(sorted)])

\* sorted(..., key=score, reverse=True): descending, equal scores keep
\* their order
RECURSIVE InsertDescending(_, _)
InsertDescending(sorted, e) ==
    IF sorted = <<>> THEN <<e>>
    ELSE IF sorted[Len(sorted)].score >= e.score
         THEN Append(sorted, e)
         ELSE Append(InsertDescending(SubSeq(sorted, 1, Len(sorted) - 1), e),
                     sorted[Len(sorted)])

RECURSIVE SortedByScore(_)
SortedByScore(scores) ==
    IF scores = <<>> THEN <<>>
    ELSE InsertDescending(SortedByScore(SubSeq(scores, 1, Len(scores) - 1)),
                          scores[Len(scores)])

\* the [:top_n] slice is missing
sorted_predictions_untruncated(sim_preds, ml_preds, n) ==
    SortedByScore(combined_scores(sim_preds, ml_preds))

sorted_predictions(sim_preds, ml_preds, n) ==
    Take(SortedByScore(combined_scores(sim_preds, ml_preds)), n)

\* prediction = data['info'].copy(); prediction['confidence'] = round(score, 2)
FinalPrediction(data) == [data.info EXCEPT !.confidence = RoundTenth(data.score)]

\* an engine that answers "no match" with a placeholder candidate
hybrid_prediction_placeholder(sim_preds, ml_preds, n) ==
    LET top == sorted_predictions(sim_preds, ml_preds, n)
    IN IF top = <<>>
       THEN <<[disease |-> "Unknown", confidence |-> 0, severity |-> "Mild",
               precautions |-> "", diet_recommendations |-> "",
               description |-> "", matched_symptoms |-> {}]>>
       ELSE [i \in 1..Len(top) |-> FinalPrediction(top[i])]

hybrid_prediction(sim_preds, ml_preds, n) ==
    LET top == sorted_predictions(sim_preds, ml_preds, n)
    IN [i \in 1..Len(top) |-> FinalPrediction(top[i])]

\* without the .copy() the final loop writes the blended confidence into
\* the scorer's own entry of every returned disease
entries_after_final_loop_aliased(preds, sim_preds, ml_preds, n) ==
    LET top == sorted_predictions(sim_preds, ml_preds, n)
    IN [i \in 1..Len(preds) |->
          IF \E k \in 1..Len(top) : top[k].info = preds[i]
          THEN [preds[i] EXCEPT !.confidence =
                   RoundTenth(top[CHOOSE k \in 1..Len(top) : top[k].info = preds[i]].score)]
          ELSE preds[i]]

\* A scorer's result list once the final loop has run.  data['info'] is the
\* scorer's own dict; the loop writes the blended confidence into a .copy()
\* of it, so the scorer's entries keep their values.
entries_after_final_loop(preds, sim_preds, ml_preds, n) == preds

\* the call leaves the catalog vectors in the order of its ranking
engine_after_call_consuming(engine) ==
    [engine EXCEPT !.similarities = Reverse(engine.similarities)]

\* the engine state once the call has returned: the call reads self.df, the
\* fitted vectorizer, the catalog vectors, the classifier and the label
\* encoder and assigns none of them
engine_after_call(engine) == engine

\* one call of hybrid_prediction(user_symptoms, top_n)
HybridPrediction ==
    /\ pcHyb \in {"ready", "done"}
    /\ calls < MaxCalls
    /\ LET sim_preds == predict_diseases_similarity(top_n)
           ml_preds == predict_diseases_ml(top_n)
           result == hybrid_prediction(sim_preds, ml_preds, top_n)
           engine == engine_after_call([df |-> df, similarities |-> similarities,
                                        probabilities |-> probabilities])
       IN /\ similarity_predictions' =
                entries_after_final_loop(sim_preds, sim_preds, ml_preds, top_n)
          /\ ml_predictions' =
                entries_after_final_loop(ml_preds, sim_preds, ml_preds, top_n)
          /\ final_predictions' = result
          /\ first_predictions' = IF calls = 0 THEN result ELSE first_predictions
          /\ df' = engine.df
          /\ similarities' = engine.similarities
          /\ probabilities' = engine.probabilities
    /\ calls' = calls + 1
    /\ pcHyb' = "done"
    /\ UNCHANGED <<user_symptoms, top_n>>
    /\ UNCHANGED <<varsPre, varsRec, varsApp, varsAuth>>

(***************************************************************************)
(* Part 4: the application, src/main.py                                    *)
(*                                                                         *)
(* Streamlit runs main() once per interaction; an action is one script     *)
(* run.  The engine behind predictor.hybrid_prediction is Part 3; here its *)
(* return value is an input of the run, drawn from AppResults, so that the *)
(* run is checked on every kind of list the engine can hand back, the      *)
(* empty one included.  What the tabs of the results area draw is not      *)
(* modelled; the model keeps whether the area is rendered.                 *)
(***************************************************************************)
MaxEngineCalls == 2

\* the texts of the sidebar's input widget
AppTexts == {<<>>, <<" ">>, <<"\t", " ">>, <<"f">>, <<" ", "f">>}

AppCandidates ==
    { [disease |-> r.disease, confidence |-> Percent100 \div 2, severity |-> s,
       precautions |-> r.precautions,
       diet_recommendations |-> r.diet_recommendations] :
      r \in {x \in SampleRecords : x.disease \in {<<"Common", "Cold">>, <<"Cardiac", "Stroke">>}},
      s \in {"Mild", "Severe", "Critical"} }

\* the lists hybrid_prediction(user_symptoms, top_n=3) hands back
AppResults ==
    {<<>>} \cup {<<c>> : c \in AppCandidates}
           \cup {<<c, d>> : c \in AppCandidates, d \in AppCandidates}

\* load_data prints and swallows the error
load_data_swallowing(present) == "ok"

\* HealthPredictor.load_data: pd.read_csv(self.data_path); a missing file is
\* printed and re-raised
load_data(present) == IF present THEN "ok" ELSE "FileNotFoundError"

\* HealthPredictor.__init__: load_data, then prepare_models; the outcome is
\* "ok" or the exception that left the constructor
HealthPredictor_init(present) == load_data(present)

\* load_models: any exception of the constructors is caught and reported,
\* and (None, None, None) is returned; st.cache_resource keeps the returned
\* value for the process
load_models(present) ==
    LET outcome == HealthPredictor_init(present)
    IN [construction |-> outcome,
        models |-> IF outcome = "ok" THEN "loaded" ELSE "none"]

\* the value load_models() gives a script run
CachedModels ==
    IF models = "unloaded"
    THEN load_models(catalog_present)
    ELSE [construction |-> construction, models |-> models]

\* bool(x) of a list or dict that may be None
Truthy(opt) == opt # None /\ opt[1] # <<>>

\* the results area tests "is not None"
ResultsArea_not_none(preds, recs) ==
    IF preds # None /\ recs # None THEN "results" ELSE "welcome"

\* main.py's content area: the tabs when both session values are truthy,
\* the welcome text otherwise
ResultsArea(preds, recs) ==
    IF Truthy(preds) /\ Truthy(recs) THEN "results" ELSE "welcome"

\* a run without a valid session: the login page, then return
MainLogin ==
    /\ ~authenticated
    /\ page' = "login"
    /\ app_raised' = "none"
    /\ engine_result' = None
    /\ UNCHANGED <<catalog_present, authenticated, models, construction,
                   st_predictions, st_recommendations, st_user_symptoms,
                   engine_calls, session_record>>
    /\ UNCHANGED <<varsPre, varsRec, varsHyb, varsAuth>>

\* the user logs in
Login ==
    /\ ~authenticated
    /\ authenticated' = TRUE
    /\ UNCHANGED <<catalog_present, models, construction, st_predictions,
                   st_recommendations, st_user_symptoms, engine_result,
                   engine_calls, page, app_raised, session_record>>
    /\ UNCHANGED <<varsPre, varsRec, varsHyb, varsAuth>>

\* a run whose load_models() has no predictor: the error, then return
MainLoadFailed ==
    /\ authenticated
    /\ CachedModels.models = "none"
    /\ models' = CachedModels.models
    /\ construction' = CachedModels.construction
    /\ page' = "load_failed"
    /\ app_raised' = "none"
    /\ engine_result' = None
    /\ UNCHANGED <<catalog_present, authenticated, st_predictions,
                   st_recommendations, st_user_symptoms, engine_calls,
                   session_record>>
    /\ UNCHANGED <<varsPre, varsRec, varsHyb, varsAuth>>

\* a run with the Analyze button pressed, the input widget holding text
\* and, when the engine is called, result being what it returns
MainAnalyze ==
    /\ authenticated
    /\ CachedModels.models = "loaded"
    /\ engine_calls < MaxEngineCalls
    /\ models' = CachedModels.models
    /\ construction' = CachedModels.construction
    /\ \E text \in AppTexts, result \in AppResults :
          IF Strip(text) # <<>>
          THEN /\ st_user_symptoms' = text
               /\ engine_calls' = engine_calls + 1
               /\ engine_result' = Some(result)
               /\ st_predictions' = Some(result)
               /\ IF SeverityAssessmentRaises(result)
                  THEN /\ app_raised' = "KeyError"
                       /\ page' = "exception"
                       /\ UNCHANGED st_recommendations
                  ELSE /\ app_raised' = "none"
                       /\ st_recommendations' =
                             Some(generate_comprehensive_recommendations(result, text, now))
                       /\ page' = ResultsArea(st_predictions', st_recommendations')
          ELSE /\ engine_result' = None
               /\ app_raised' = "none"
               /\ page' = ResultsArea(st_predictions, st_recommendations)
               /\ UNCHANGED <<st_user_symptoms, engine_calls, st_predictions,
                              st_recommendations>>
    /\ UNCHANGED <<catalog_present, authenticated, session_record>>
    /\ UNCHANGED <<varsPre, varsRec, varsHyb, varsAuth>>

\* a run with the Clear Results button pressed: the session values are
\* reset and st.rerun() runs the script again, with no button pressed
MainClear ==
    /\ authenticated
    /\ CachedModels.models = "loaded"
    /\ models' = CachedModels.models
    /\ construction' = CachedModels.construction
    /\ st_predictions' = None
    /\ st_recommendations' = None
    /\ st_user_symptoms' = <<>>
    /\ engine_result' = None
    /\ app_raised' = "none"
    /\ page' = ResultsArea(st_predictions', st_recommendations')
    /\ UNCHANGED <<catalog_present, authenticated, engine_calls, session_record>>
    /\ UNCHANGED <<varsPre, varsRec, varsHyb, varsAuth>>

\* a run with no button pressed
MainView ==
    /\ authenticated
    /\ CachedModels.models = "loaded"
    /\ models' = CachedModels.models
    /\ construction' = CachedModels.construction
    /\ engine_result' = None
    /\ app_raised' = "none"
    /\ page' = ResultsArea(st_predictions, st_recommendations)
    /\ UNCHANGED <<catalog_present, authenticated, st_predictions,
                   st_recommendations, st_user_symptoms, engine_calls,
                   session_record>>
    /\ UNCHANGED <<varsPre, varsRec, varsHyb, varsAuth>>

\* the HealthSession row create_health_session builds
HealthSessionRow(preds, recs) ==
    [predictions |-> preds,
     recommendations |-> recs,
     top_prediction |-> IF preds # <<>> THEN Some(preds[1].disease) ELSE None,
     top_confidence |-> IF preds # <<>> THEN Some(preds[1].confidence) ELSE None,
     severity_level |-> IF preds # <<>> THEN Some(preds[1].severity) ELSE None]

\* DatabaseManager.create_health_session on the analysis the session
\* holds; a database error rolls back and stores nothing
CreateHealthSession ==
    /\ st_predictions # None
    /\ st_recommendations # None
    /\ \E committed \in BOOLEAN :
          session_record' =
             IF committed
             THEN Some(HealthSessionRow(st_predictions[1], st_recommendations[1]))
             ELSE session_record
    /\ UNCHANGED <<catalog_present, authenticated, models, construction,
                   st_predictions, st_recommendations, st_user_symptoms,
                   engine_result, engine_calls, page, app_raised>>
    /\ UNCHANGED <<varsPre, varsRec, varsHyb, varsAuth>>

(***************************************************************************)
(* Part 5: accounts and login sessions, src/auth/auth.py, src/storage.py   *)
(*                                                                         *)
(* An action is one call of AuthManager or UserDatabase; each call runs    *)
(* its SQL in one transaction.  SQLite is taken to work (no sqlite3.Error) *)
(* and secrets.token_urlsafe(32) never to draw the same token twice.  The  *)
(* wall clock may jump in either direction between calls.  A username or   *)
(* an email is a sequence of characters; "f@f" stands for an address with  *)
(* a full domain.  SpecAuth runs signup and login on an empty database;    *)
(* SpecSess runs the session-table calls on a database with or without an  *)
(* account (login's effect on the table is create_session).                *)
(***************************************************************************)
MaxSessions == 2
MaxAuthClock == 2

\* expires_hours * 3600, in clock units
SessionLifetime == 1

NoCall == [op |-> "none", arg |-> 0, success |-> FALSE, user |-> None]

SignupUsernames == {<<"f">>, <<"F">>, <<"F", "@", "f">>, <<" ">>}

SignupEmails == {<<"f", "@", "f">>, <<"F", "@", "f">>, <<"f", "f", "@", "F">>, <<"f", "f">>}

LoginIdentifiers ==
    {<<"f">>, <<"F">>, <<"F", "@", "f">>, <<"f", "@", "F">>, <<"F", "F", "@", "f">>, <<" ">>}

Passwords == {"Str0ng!Pass", "0ther!Pass", "weak"}

\* the users table of a database with one account
SampleUsers ==
    << [id |-> 1, username |-> <<"F">>, email |-> <<"f", "@", "f">>,
        password_hash |-> <<"bcrypt", "Str0ng!Pass">>] >>

\* validate_password: length, upper, lower, digit and special character
validate_password(password) == password \in {"Str0ng!Pass", "0ther!Pass"}

\* validate_email's pattern: word characters, one @, word characters
validate_email(email) ==
    \E i \in 2..(Len(email) - 1) :
        /\ email[i] = "@"
        /\ \A j \in 1..Len(email) : j # i => IsWord(email[j])

\* bcrypt: a hash verifies exactly the password it was made from
hash_password(password) == <<"bcrypt", password>>
verify_password(password, password_hash) == password_hash = hash_password(password)

\* SELECT ... FROM users WHERE email = ? (TEXT comparison is by exact case)
get_user_by_email(email) ==
    IF \E i \in 1..Len(users) : users[i].email = email
    THEN Some(users[CHOOSE i \in 1..Len(users) : users[i].email = email])
    ELSE None

\* the lookup ignores case
get_user_by_username_nocase(username) ==
    IF \E i \in 1..Len(users) : Lower(users[i].username) = Lower(username)
    THEN Some(users[CHOOSE i \in 1..Len(users) : Lower(users[i].username) = Lower(username)])
    ELSE None

\* SELECT ... FROM users WHERE username = ?
get_user_by_username(username) ==
    IF \E i \in 1..Len(users) : users[i].username = username
    THEN Some(users[CHOOSE i \in 1..Len(users) : users[i].username = username])
    ELSE None

\* UserDatabase.create_user: the new table and the result
create_user(username, email, password_hash) ==
    IF \E i \in 1..Len(users) : users[i].username = username \/ users[i].email = email
    THEN [success |-> FALSE, user_id |-> 0, users |-> users]
    ELSE [success |-> TRUE, user_id |-> Len(users) + 1,
          users |-> Append(users, [id |-> Len(users) + 1, username |-> username,
                                   email |-> email, password_hash |-> password_hash])]

\* AuthManager.signup
signup(username, email, password, confirm_password) ==
    LET failed == [success |-> FALSE, user_id |-> 0, users |-> users]
    IN IF Strip(username) = <<>> THEN failed
       ELSE IF Strip(email) = <<>> THEN failed
       ELSE IF ~validate_email(email) THEN failed
       ELSE IF password # confirm_password THEN failed
       ELSE IF ~validate_password(password) THEN failed
       ELSE LET clean_username == Strip(username)
                clean_email == Lower(Strip(email))
            IN IF get_user_by_username(clean_username) # None THEN failed
               ELSE IF get_user_by_email(clean_email) # None THEN failed
               ELSE create_user(clean_username, clean_email, hash_password(password))

Signup ==
    /\ \E username \in SignupUsernames, email \in SignupEmails,
          password \in Passwords, confirm_password \in Passwords :
          LET result == signup(username, email, password, confirm_password)
          IN /\ users' = result.users
             /\ auth_returned' = [op |-> "signup", arg |-> 0,
                                  success |-> result.success,
                                  user |-> IF result.success
                                           THEN Some(result.user_id) ELSE None]
    /\ UNCHANGED <<user_sessions, auth_now, tokens_issued, dead>>
    /\ UNCHANGED <<varsPre, varsRec, varsHyb, varsApp>>

\* the user AuthManager.login looks up, before the password check
login_lookup(email_or_username) ==
    LET key == Lower(Strip(email_or_username))
        user == get_user_by_email(key)
    IN IF user # None THEN user ELSE get_user_by_username(key)

\* the row UserDatabase.create_session inserts; the token is the next
\* fresh one
new_session(user_id) ==
    [session_token |-> tokens_issued + 1, user_id |-> user_id,
     expires_at |-> auth_now + SessionLifetime, is_active |-> TRUE]

\* AuthManager.login(email_or_username, password)
LoginCall ==
    /\ tokens_issued < MaxSessions
    /\ \E email_or_username \in LoginIdentifiers, password \in Passwords :
          LET entered == Strip(email_or_username) # <<>> /\ password # ""
              user == login_lookup(email_or_username)
              ok == /\ entered
                    /\ user # None
                    /\ verify_password(password, user[1].password_hash)
          IN /\ auth_returned' = [op |-> "login",
                                  arg |-> [identifier |-> email_or_username,
                                           password |-> password],
                                  success |-> ok,
                                  user |-> IF entered /\ user # None
                                           THEN Some(user[1].id) ELSE None]
             /\ IF ok
                THEN /\ user_sessions' = user_sessions \cup {new_session(user[1].id)}
                     /\ tokens_issued' = tokens_issued + 1
                ELSE UNCHANGED <<user_sessions, tokens_issued>>
    /\ UNCHANGED <<users, auth_now, dead>>
    /\ UNCHANGED <<varsPre, varsRec, varsHyb, varsApp>>

\* UserDatabase.create_session(user_id) called on its own; the user row
\* need not exist (no foreign-key enforcement)
CreateSession ==
    /\ tokens_issued < MaxSessions
    /\ \E user_id \in 1..(Len(users) + 1) :
          /\ user_sessions' = user_sessions \cup {new_session(user_id)}
          /\ auth_returned' = [op |-> "create_session", arg |-> tokens_issued + 1,
                               success |-> TRUE, user |-> Some(user_id)]
    /\ tokens_issued' = tokens_issued + 1
    /\ UNCHANGED <<users, auth_now, dead>>
    /\ UNCHANGED <<varsPre, varsRec, varsHyb, varsApp>>

\* the WHERE clause does not test is_active
SessionRows_any(sessions, session_token) ==
    {s \in sessions : s.session_token = session_token}

\* ... WHERE s.session_token = ? AND s.is_active = TRUE
SessionRows(sessions, session_token) ==
    {s \in sessions : s.session_token = session_token /\ s.is_active}

\* UPDATE user_sessions SET is_active = FALSE WHERE session_token = ?
Deactivated(sessions, session_token) ==
    {IF s.session_token = session_token THEN [s EXCEPT !.is_active = FALSE] ELSE s :
        s \in sessions}

\* UserDatabase.validate_session: what it returns, whether it deactivated
\* the token, and the table afterwards
validate_session(session_token) ==
    LET rows == {s \in SessionRows(user_sessions, session_token) :
                    s.user_id \in 1..Len(users)}
    IN IF rows = {}
       THEN [value |-> None, deactivated |-> FALSE, sessions |-> user_sessions]
       ELSE LET row == CHOOSE s \in rows : TRUE
            IN IF auth_now > row.expires_at
               THEN [value |-> None, deactivated |-> TRUE,
                     sessions |-> Deactivated(user_sessions, session_token)]
               ELSE [value |-> Some(row.user_id), deactivated |-> FALSE,
                     sessions |-> user_sessions]

ValidateSession ==
    /\ \E session_token \in 1..MaxSessions :
          LET result == validate_session(session_token)
          IN /\ user_sessions' = result.sessions
             /\ dead' = IF result.deactivated THEN dead \cup {session_token} ELSE dead
             /\ auth_returned' = [op |-> "validate_session", arg |-> session_token,
                                  success |-> result.value # None,
                                  user |-> result.value]
    /\ UNCHANGED <<users, auth_now, tokens_issued>>
    /\ UNCHANGED <<varsPre, varsRec, varsHyb, varsApp>>

\* UserDatabase.invalidate_session: success is rowcount > 0
InvalidateSession ==
    /\ \E session_token \in 1..MaxSessions :
          LET success == \E s \in user_sessions : s.session_token = session_token
          IN /\ user_sessions' = Deactivated(user_sessions, session_token)
             /\ dead' = IF success THEN dead \cup {session_token} ELSE dead
             /\ auth_returned' = [op |-> "invalidate_session", arg |-> session_token,
                                  success |-> success, user |-> None]
    /\ UNCHANGED <<users, auth_now, tokens_issued>>
    /\ UNCHANGED <<varsPre, varsRec, varsHyb, varsApp>>

\* UserDatabase.cleanup_expired_sessions:
\* DELETE ... WHERE expires_at < ? OR is_active = FALSE
CleanupExpiredSessions ==
    /\ user_sessions' = {s \in user_sessions : ~(s.expires_at < auth_now \/ ~s.is_active)}
    /\ auth_returned' = [op |-> "cleanup_expired_sessions", arg |-> 0,
                         success |-> TRUE, user |-> None]
    /\ UNCHANGED <<users, auth_now, tokens_issued, dead>>
    /\ UNCHANGED <<varsPre, varsRec, varsHyb, varsApp>>

\* the wall clock moves, forwards or backwards
ClockJump ==
    /\ \E t \in 0..MaxAuthClock : t # auth_now /\ auth_now' = t
    /\ UNCHANGED <<users, user_sessions, tokens_issued, dead, auth_returned>>
    /\ UNCHANGED <<varsPre, varsRec, varsHyb, varsApp>>

(***************************************************************************)
(* Specifications                                                          *)
(***************************************************************************)
\* a string to normalize; the deriver and the engine are idle
InitPre ==
    /\ symptoms \in Strings
    /\ processed = <<>>
    /\ reprocessed = <<>>
    /\ pcPre = "start"
    /\ predictions = <<>>
    /\ input_symptoms = ""
    /\ recommendations = NoBundle
    /\ first_recommendations = NoBundle
    /\ raised = "none"
    /\ now = 0
    /\ assessment = None
    /\ severity_warning = None
    /\ pcRec = "idle"
    /\ df = <<>>
    /\ similarities = <<>>
    /\ probabilities = <<>>
    /\ user_symptoms = {}
    /\ top_n = 0
    /\ similarity_predictions = <<>>
    /\ ml_predictions = <<>>
    /\ final_predictions = <<>>
    /\ first_predictions = <<>>
    /\ calls = 0
    /\ pcHyb = "idle"
    /\ catalog_present = TRUE
    /\ authenticated = FALSE
    /\ models = "unloaded"
    /\ construction = "not_run"
    /\ st_predictions = None
    /\ st_recommendations = None
    /\ st_user_symptoms = <<>>
    /\ engine_result = None
    /\ engine_calls = 0
    /\ page = "none"
    /\ app_raised = "none"
    /\ session_record = None
    /\ users = <<>>
    /\ user_sessions = {}
    /\ auth_now = 0
    /\ tokens_issued = 0
    /\ dead = {}
    /\ auth_returned = NoCall

\* a candidate list and a symptom text for the deriver; the normalizer and
\* the engine are idle
InitRec ==
    /\ symptoms = <<>>
    /\ processed = <<>>
    /\ reprocessed = <<>>
    /\ pcPre = "idle"
    /\ predictions \in SeqsUpTo(Candidates, MaxCands)
    /\ input_symptoms \in SymptomTexts
    /\ recommendations = NoBundle
    /\ first_recommendations = NoBundle
    /\ raised = "none"
    /\ now = 0
    /\ assessment = None
    /\ severity_warning = None
    /\ pcRec = "start"
    /\ df = <<>>
    /\ similarities = <<>>
    /\ probabilities = <<>>
    /\ user_symptoms = {}
    /\ top_n = 0
    /\ similarity_predictions = <<>>
    /\ ml_predictions = <<>>
    /\ final_predictions = <<>>
    /\ first_predictions = <<>>
    /\ calls = 0
    /\ pcHyb = "idle"
    /\ catalog_present = TRUE
    /\ authenticated = FALSE
    /\ models = "unloaded"
    /\ construction = "not_run"
    /\ st_predictions = None
    /\ st_recommendations = None
    /\ st_user_symptoms = <<>>
    /\ engine_result = None
    /\ engine_calls = 0
    /\ page = "none"
    /\ app_raised = "none"
    /\ session_record = None
    /\ users = <<>>
    /\ user_sessions = {}
    /\ auth_now = 0
    /\ tokens_issued = 0
    /\ dead = {}
    /\ auth_returned = NoCall

\* the engine after __init__ (load_data, prepare_models) and the arguments
\* of the request; the normalizer and the deriver are idle
InitHyb ==
    /\ symptoms = <<>>
    /\ processed = <<>>
    /\ reprocessed = <<>>
    /\ pcPre = "idle"
    /\ predictions = <<>>
    /\ input_symptoms = ""
    /\ recommendations = NoBundle
    /\ first_recommendations = NoBundle
    /\ raised = "none"
    /\ now = 0
    /\ assessment = None
    /\ severity_warning = None
    /\ pcRec = "idle"
    /\ df \in SampleCatalogs
    /\ user_symptoms \in Queries
    /\ similarities \in SimilarityVectors(df, user_symptoms)
    /\ probabilities \in ProbabilityVectors(df)
    /\ top_n \in 0..MaxTopN
    /\ similarity_predictions = <<>>
    /\ ml_predictions = <<>>
    /\ final_predictions = <<>>
    /\ first_predictions = <<>>
    /\ calls = 0
    /\ pcHyb = "ready"
    /\ catalog_present = TRUE
    /\ authenticated = FALSE
    /\ models = "unloaded"
    /\ construction = "not_run"
    /\ st_predictions = None
    /\ st_recommendations = None
    /\ st_user_symptoms = <<>>
    /\ engine_result = None
    /\ engine_calls = 0
    /\ page = "none"
    /\ app_raised = "none"
    /\ session_record = None
    /\ users = <<>>
    /\ user_sessions = {}
    /\ auth_now = 0
    /\ tokens_issued = 0
    /\ dead = {}
    /\ auth_returned = NoCall

\* the process before its first script run; the normalizer, the deriver
\* and the engine model are idle
InitApp ==
    /\ symptoms = <<>>
    /\ processed = <<>>
    /\ reprocessed = <<>>
    /\ pcPre = "idle"
    /\ predictions = <<>>
    /\ input_symptoms = ""
    /\ recommendations = NoBundle
    /\ first_recommendations = NoBundle
    /\ raised = "none"
    /\ now = 0
    /\ assessment = None
    /\ severity_warning = None
    /\ pcRec = "idle"
    /\ df = <<>>
    /\ similarities = <<>>
    /\ probabilities = <<>>
    /\ user_symptoms = {}
    /\ top_n = 0
    /\ similarity_predictions = <<>>
    /\ ml_predictions = <<>>
    /\ final_predictions = <<>>
    /\ first_predictions = <<>>
    /\ calls = 0
    /\ pcHyb = "idle"
    /\ catalog_present \in BOOLEAN
    /\ authenticated = FALSE
    /\ models = "unloaded"
    /\ construction = "not_run"
    /\ st_predictions = None
    /\ st_recommendations = None
    /\ st_user_symptoms = <<>>
    /\ engine_result = None
    /\ engine_calls = 0
    /\ page = "none"
    /\ app_raised = "none"
    /\ session_record = None
    /\ users = <<>>
    /\ user_sessions = {}
    /\ auth_now = 0
    /\ tokens_issued = 0
    /\ dead = {}
    /\ auth_returned = NoCall

\* an empty account database; everything else is idle
InitAuth ==
    /\ symptoms = <<>>
    /\ processed = <<>>
    /\ reprocessed = <<>>
    /\ pcPre = "idle"
    /\ predictions = <<>>
    /\ input_symptoms = ""
    /\ recommendations = NoBundle
    /\ first_recommendations = NoBundle
    /\ raised = "none"
    /\ now = 0
    /\ assessment = None
    /\ severity_warning = None
    /\ pcRec = "idle"
    /\ df = <<>>
    /\ similarities = <<>>
    /\ probabilities = <<>>
    /\ user_symptoms = {}
    /\ top_n = 0
    /\ similarity_predictions = <<>>
    /\ ml_predictions = <<>>
    /\ final_predictions = <<>>
    /\ first_predictions = <<>>
    /\ calls = 0
    /\ pcHyb = "idle"
    /\ catalog_present = TRUE
    /\ authenticated = FALSE
    /\ models = "unloaded"
    /\ construction = "not_run"
    /\ st_predictions = None
    /\ st_recommendations = None
    /\ st_user_symptoms = <<>>
    /\ engine_result = None
    /\ engine_calls = 0
    /\ page = "none"
    /\ app_raised = "none"
    /\ session_record = None
    /\ users = <<>>
    /\ user_sessions = {}
    /\ auth_now = 0
    /\ tokens_issued = 0
    /\ dead = {}
    /\ auth_returned = NoCall

\* a database with or without an account and no session; everything else
\* is idle
InitSess ==
    /\ symptoms = <<>>
    /\ processed = <<>>
    /\ reprocessed = <<>>
    /\ pcPre = "idle"
    /\ predictions = <<>>
    /\ input_symptoms = ""
    /\ recommendations = NoBundle
    /\ first_recommendations = NoBundle
    /\ raised = "none"
    /\ now = 0
    /\ assessment = None
    /\ severity_warning = None
    /\ pcRec = "idle"
    /\ df = <<>>
    /\ similarities = <<>>
    /\ probabilities = <<>>
    /\ user_symptoms = {}
    /\ top_n = 0
    /\ similarity_predictions = <<>>
    /\ ml_predictions = <<>>
    /\ final_predictions = <<>>
    /\ first_predictions = <<>>
    /\ calls = 0
    /\ pcHyb = "idle"
    /\ catalog_present = TRUE
    /\ authenticated = FALSE
    /\ models = "unloaded"
    /\ construction = "not_run"
    /\ st_predictions = None
    /\ st_recommendations = None
    /\ st_user_symptoms = <<>>
    /\ engine_result = None
    /\ engine_calls = 0
    /\ page = "none"
    /\ app_raised = "none"
    /\ session_record = None
    /\ users \in {<<>>, SampleUsers}
    /\ user_sessions = {}
    /\ auth_now = 0
    /\ tokens_issued = 0
    /\ dead = {}
    /\ auth_returned = NoCall

NextPre == Normalize \/ NormalizeAgain
SpecPre == InitPre /\ [][NextPre]_vars

NextRec == Tick \/ Recommend \/ RecommendAgain \/ Assess \/ GetSeverityWarning
SpecRec == InitRec /\ [][NextRec]_vars

NextHyb == HybridPrediction
SpecHyb == InitHyb /\ [][NextHyb]_vars

NextApp ==
    \/ MainLogin
    \/ Login
    \/ MainLoadFailed
    \/ MainAnalyze
    \/ MainClear
    \/ MainView
    \/ CreateHealthSession
SpecApp == InitApp /\ [][NextApp]_vars

NextAuth == Signup \/ LoginCall
SpecAuth == InitAuth /\ [][NextAuth]_vars

NextSess ==
    \/ CreateSession
    \/ ValidateSession
    \/ InvalidateSession
    \/ CleanupExpiredSessions
    \/ ClockJump
SpecSess == InitSess /\ [][NextSess]_vars


(***************************************************************************)
(* Properties of the recommendation deriver (SpecRec)                      *)
(***************************************************************************)
Returned == pcRec = "done" /\ raised = "none"

\* the order Severe > Moderate > Mild
TierAtLeast(a, b) ==
    \/ a = "Severe"
    \/ a = "Moderate" /\ b \in {"Moderate", "Mild"}
    \/ a = "Mild" /\ b = "Mild"

AllTiers(preds) == \A i \in 1..Len(preds) : preds[i].severity \in Tiers

\* C1: for a non-empty candidate list whose severities are all tiers, the
\* call returns and overall_severity is a severity of the list that is at
\* least every severity of the list under Severe > Moderate > Mild,
\* whatever the rank order.
OverallSeverityIsMaximum ==
    (pcRec = "done" /\ predictions # <<>> /\ AllTiers(predictions)) =>
        /\ raised = "none"
        /\ LET overall == recommendations.severity_assessment.overall_severity
           IN /\ \E i \in 1..Len(predictions) : predictions[i].severity = overall
              /\ \A i \in 1..Len(predictions) :
                    TierAtLeast(overall, predictions[i].severity)

\* a Mild top candidate with a Severe one below it
OverallSeverityWitness ==
    /\ Returned
    /\ Len(predictions) >= 2
    /\ AllTiers(predictions)
    /\ predictions[1].severity = "Mild"
    /\ predictions[Len(predictions)].severity = "Severe"
    /\ recommendations.severity_assessment.overall_severity = "Severe"

\* C2: called with an empty list and any symptom text, the call returns
\* without raising a bundle that has the key error and lacks the key
\* severity_assessment.
EmptyListGivesErrorBundle ==
    (pcRec = "done" /\ predictions = <<>>) =>
        /\ raised = "none"
        /\ "error" \in DOMAIN recommendations
        /\ "severity_assessment" \notin DOMAIN recommendations

EmptyListWitness ==
    /\ Returned
    /\ predictions = <<>>
    /\ input_symptoms # ""
    /\ "error" \in DOMAIN recommendations

SuccessKeys ==
    {"severity_assessment", "lifestyle_recommendations", "dietary_recommendations",
     "self_care_tips", "warning_signs", "followup_recommendations", "disclaimer"}

\* C3: a returned bundle has the key error iff the candidate list was
\* empty, and the bundle returned for a non-empty list has
\* severity_assessment, the five recommendation lists and the disclaimer.
ErrorKeyIffEmpty ==
    Returned =>
        /\ ("error" \in DOMAIN recommendations) <=> (predictions = <<>>)
        /\ predictions # <<>> => SuccessKeys \subseteq DOMAIN recommendations

\* a one-candidate list answered by a full bundle
ErrorKeyWitness ==
    /\ Returned
    /\ Len(predictions) = 1
    /\ "error" \notin DOMAIN recommendations
    /\ SuccessKeys \subseteq DOMAIN recommendations

HasSevere(preds) == \E i \in 1..Len(preds) : preds[i].severity = "Severe"

\* C4: when any candidate, at any rank, is Severe, self_care_tips is
\* exactly the one seek-immediate-medical-attention entry.
SevereOverridesSelfCare ==
    (pcRec = "done" /\ HasSevere(predictions)) =>
        /\ raised = "none"
        /\ recommendations.self_care_tips = <<SeekAttention>>

\* a non-Severe candidate whose name matches a tip group, ranked above the
\* Severe one
SevereOverrideWitness ==
    /\ Returned
    /\ Len(predictions) >= 2
    /\ predictions[1].severity # "Severe"
    /\ ConditionTips(predictions[1].disease) # <<>>
    /\ predictions[Len(predictions)].severity = "Severe"
    /\ Len(recommendations.self_care_tips) = 1

(***************************************************************************)
(* Properties of the hybrid prediction engine (SpecHyb)                    *)
(***************************************************************************)
ZeroOverlap == user_symptoms \cap Vocabulary(df) = {}

\* C5: for a query without any vocabulary token (the empty query
\* included), hybrid_prediction returns the empty list, whatever the
\* classifier answers.
ZeroOverlapGivesEmpty ==
    (pcHyb = "done" /\ ZeroOverlap) => final_predictions = <<>>

\* C6: the list returned by hybrid_prediction has at most top_n entries.
AtMostTopN == pcHyb = "done" => Len(final_predictions) <= top_n

\* 2 * top_n distinct diseases accumulated, top_n returned
AtMostTopNWitness ==
    /\ pcHyb = "done"
    /\ top_n >= 1
    /\ Len(combined_scores(similarity_predictions, ml_predictions)) = 2 * top_n
    /\ Len(final_predictions) = top_n

InBoth(disease) ==
    /\ \E i \in 1..Len(similarity_predictions) : similarity_predictions[i].disease = disease
    /\ \E j \in 1..Len(ml_predictions) : ml_predictions[j].disease = disease

\* round(0.6 * S + 0.4 * C, 2) on confidences in 0.01 %
Blend(S, C) == RoundTenth(6 * S + 4 * C)

\* C7, as stated: a returned disease that some similarity entry carries
\* with confidence S and some classifier entry with confidence C has the
\* confidence round(0.6 * S + 0.4 * C, 2).
CombinedScoreOfAnyEntry ==
    pcHyb = "done" =>
        \A k \in 1..Len(final_predictions) :
        \A i \in 1..Len(similarity_predictions) :
        \A j \in 1..Len(ml_predictions) :
            (/\ similarity_predictions[i].disease = final_predictions[k].disease
             /\ ml_predictions[j].disease = final_predictions[k].disease)
            => final_predictions[k].confidence =
                  Blend(similarity_predictions[i].confidence, ml_predictions[j].confidence)

IsLastEntryOf(i, disease) ==
    /\ similarity_predictions[i].disease = disease
    /\ \A l \in (i + 1)..Len(similarity_predictions) :
          similarity_predictions[l].disease # disease

\* C7, amended: S is the confidence of the last similarity entry that
\* carries the disease name (the only one when names are unique).
CombinedScoreOfLastEntry ==
    pcHyb = "done" =>
        \A k \in 1..Len(final_predictions) :
        \A i \in 1..Len(similarity_predictions) :
        \A j \in 1..Len(ml_predictions) :
            (/\ IsLastEntryOf(i, final_predictions[k].disease)
             /\ ml_predictions[j].disease = final_predictions[k].disease)
            => final_predictions[k].confidence =
                  Blend(similarity_predictions[i].confidence, ml_predictions[j].confidence)

\* a returned disease scored by both scorers with different confidences
\* strictly between 0 and 100
CombinedScoreWitness ==
    /\ pcHyb = "done"
    /\ \E k \in 1..Len(final_predictions) :
       \E i \in 1..Len(similarity_predictions) :
       \E j \in 1..Len(ml_predictions) :
            /\ IsLastEntryOf(i, final_predictions[k].disease)
            /\ ml_predictions[j].disease = final_predictions[k].disease
            /\ similarity_predictions[i].confidence \in 1..(Percent100 - 1)
            /\ ml_predictions[j].confidence \in 1..(Percent100 - 1)
            /\ similarity_predictions[i].confidence # ml_predictions[j].confidence
            /\ final_predictions[k].confidence =
                  Blend(similarity_predictions[i].confidence, ml_predictions[j].confidence)

ScorerConfidencesInRange ==
    /\ \A i \in 1..Len(similarity_predictions) :
          similarity_predictions[i].confidence \in 0..Percent100
    /\ \A j \in 1..Len(ml_predictions) :
          ml_predictions[j].confidence \in 0..Percent100

\* C8: with scorer confidences in [0, 100], every returned confidence is
\* in [0, 100].
ConfidenceInRange ==
    (pcHyb = "done" /\ ScorerConfidencesInRange) =>
        \A k \in 1..Len(final_predictions) :
            final_predictions[k].confidence \in 0..Percent100

\* a returned list with a candidate at 100 whose confidences sum to more
\* than 100
ConfidenceRangeWitness ==
    /\ pcHyb = "done"
    /\ Len(final_predictions) >= 2
    /\ final_predictions[1].confidence = Percent100
    /\ SumSeq([k \in 1..Len(final_predictions) |-> final_predictions[k].confidence])
          > Percent100

NormalizeIdempotent == pcPre = "twice" => reprocessed = processed


AllSpace(s) == \A i \in 1..Len(s) : IsSpace(s[i])

\* C11: preprocess_symptoms maps the empty string and every
\* whitespace-only string to the empty string.
BlankNormalizesToEmpty ==
    (pcPre \in {"once", "twice"} /\ AllSpace(symptoms)) => processed = <<>>

\* a whitespace-only string of both whitespace characters
BlankNormalizesWitness ==
    /\ pcPre = "once"
    /\ Len(symptoms) >= 2
    /\ AllSpace(symptoms)
    /\ symptoms[1] # symptoms[2]
    /\ processed = <<>>

(***************************************************************************)
(* Properties of two deriver calls (SpecRec)                               *)
(***************************************************************************)
BothReturned == pcRec = "again" /\ raised = "none" /\ first_recommendations # NoBundle

NoRepeats(list) == \A i, j \in 1..Len(list) : list[i] = list[j] => i = j

\* C13: in a successful bundle none of the five recommendation lists
\* contains a string twice.
ListsHaveNoRepeats ==
    (Returned /\ predictions # <<>>) =>
        /\ NoRepeats(recommendations.lifestyle_recommendations)
        /\ NoRepeats(recommendations.dietary_recommendations)
        /\ NoRepeats(recommendations.self_care_tips)
        /\ NoRepeats(recommendations.warning_signs)
        /\ NoRepeats(recommendations.followup_recommendations)


(***************************************************************************)
(* Further properties of the hybrid prediction engine (SpecHyb)            *)
(***************************************************************************)
InSimilarity(disease) ==
    \E i \in 1..Len(similarity_predictions) : similarity_predictions[i].disease = disease

InMl(disease) ==
    \E j \in 1..Len(ml_predictions) : ml_predictions[j].disease = disease

CountedSimilarity(disease) ==
    IF InSimilarity(disease)
    THEN similarity_predictions[CHOOSE i \in 1..Len(similarity_predictions) :
                                    IsLastEntryOf(i, disease)].confidence
    ELSE 0

CountedMl(disease) ==
    IF InMl(disease)
    THEN ml_predictions[CHOOSE j \in 1..Len(ml_predictions) :
                            ml_predictions[j].disease = disease].confidence
    ELSE 0

CombinedScore(disease) == 6 * CountedSimilarity(disease) + 4 * CountedMl(disease)

\* the diseases in first-encountered order, similarity results first
EncounterOrder ==
    DictFromKeys([i \in 1..Len(similarity_predictions) |-> similarity_predictions[i].disease]
                 \o [j \in 1..Len(ml_predictions) |-> ml_predictions[j].disease])

EncounterPosition(disease) ==
    CHOOSE i \in 1..Len(EncounterOrder) : EncounterOrder[i] = disease

\* C16: the returned list is in descending order of combined score, and of
\* two diseases with equal combined score the one encountered first comes
\* first, similarity results being encountered before classifier-only
\* ones.
OrderedByScoreThenEncounter ==
    pcHyb = "done" =>
        \A k \in 1..(Len(final_predictions) - 1) :
            LET a == final_predictions[k].disease
                b == final_predictions[k + 1].disease
            IN \/ CombinedScore(a) > CombinedScore(b)
               \/ /\ CombinedScore(a) = CombinedScore(b)
                  /\ EncounterPosition(a) < EncounterPosition(b)

\* a similarity result and a classifier-only result of equal combined
\* score, both returned
OrderedByScoreWitness ==
    /\ pcHyb = "done"
    /\ \E k \in 1..(Len(final_predictions) - 1) :
          /\ InSimilarity(final_predictions[k].disease)
          /\ ~InSimilarity(final_predictions[k + 1].disease)
          /\ CombinedScore(final_predictions[k].disease) =
                CombinedScore(final_predictions[k + 1].disease)

\* C17, as stated: a returned disease that only the similarity scorer
\* produced has 0.6 times the confidence of its similarity entry, one that
\* only the classifier produced has 0.4 times its classifier confidence.
SingleSourceScoreOfAnyEntry ==
    pcHyb = "done" =>
        \A k \in 1..Len(final_predictions) :
            LET f == final_predictions[k]
            IN /\ ~InMl(f.disease) =>
                    \A i \in 1..Len(similarity_predictions) :
                        similarity_predictions[i].disease = f.disease =>
                            f.confidence = RoundTenth(6 * similarity_predictions[i].confidence)
               /\ ~InSimilarity(f.disease) =>
                    \A j \in 1..Len(ml_predictions) :
                        ml_predictions[j].disease = f.disease =>
                            f.confidence = RoundTenth(4 * ml_predictions[j].confidence)

\* C17, amended: the similarity confidence is that of the last similarity
\* entry carrying the disease name.
SingleSourceScoreOfLastEntry ==
    pcHyb = "done" =>
        \A k \in 1..Len(final_predictions) :
            LET f == final_predictions[k]
            IN /\ ~InMl(f.disease) =>
                    \A i \in 1..Len(similarity_predictions) :
                        IsLastEntryOf(i, f.disease) =>
                            f.confidence = RoundTenth(6 * similarity_predictions[i].confidence)
               /\ ~InSimilarity(f.disease) =>
                    \A j \in 1..Len(ml_predictions) :
                        ml_predictions[j].disease = f.disease =>
                            f.confidence = RoundTenth(4 * ml_predictions[j].confidence)

\* a returned list with a similarity-only and a classifier-only disease
SingleSourceWitness ==
    /\ pcHyb = "done"
    /\ \E k \in 1..Len(final_predictions) :
          /\ InSimilarity(final_predictions[k].disease)
          /\ ~InMl(final_predictions[k].disease)
          /\ final_predictions[k].confidence = 6000
    /\ \E k \in 1..Len(final_predictions) :
          /\ ~InSimilarity(final_predictions[k].disease)
          /\ InMl(final_predictions[k].disease)
          /\ final_predictions[k].confidence = 4000

SameButConfidence(f, entry) == f = [entry EXCEPT !.confidence = f.confidence]

\* the scorers' results are what the scorers return for the call
ScorerEntriesIntact ==
    /\ similarity_predictions = predict_diseases_similarity(top_n)
    /\ ml_predictions = predict_diseases_ml(top_n)

\* C20, as stated: a returned candidate has the fields of the similarity
\* scorer's entry for its disease when there is one, else those of the
\* classifier's entry, only the confidence replaced; the scorers' entries
\* are not modified.
FieldsOfAnySimilarityEntry ==
    pcHyb = "done" =>
        /\ \A k \in 1..Len(final_predictions) :
              LET f == final_predictions[k]
              IN /\ \A i \in 1..Len(similarity_predictions) :
                        similarity_predictions[i].disease = f.disease =>
                            SameButConfidence(f, similarity_predictions[i])
                 /\ ~InSimilarity(f.disease) =>
                        \A j \in 1..Len(ml_predictions) :
                            ml_predictions[j].disease = f.disease =>
                                SameButConfidence(f, ml_predictions[j])
        /\ ScorerEntriesIntact

\* C20, amended: the similarity scorer's entry is the last one carrying
\* the disease name.
FieldsOfLastSimilarityEntry ==
    pcHyb = "done" =>
        /\ \A k \in 1..Len(final_predictions) :
              LET f == final_predictions[k]
              IN /\ \A i \in 1..Len(similarity_predictions) :
                        IsLastEntryOf(i, f.disease) =>
                            SameButConfidence(f, similarity_predictions[i])
                 /\ ~InSimilarity(f.disease) =>
                        \A j \in 1..Len(ml_predictions) :
                            ml_predictions[j].disease = f.disease =>
                                SameButConfidence(f, ml_predictions[j])
        /\ ScorerEntriesIntact

\* a returned disease that both scorers produced, from rows with different
\* fields, with a confidence that neither scorer reported
FieldsWitness ==
    /\ pcHyb = "done"
    /\ \E k \in 1..Len(final_predictions) :
       \E i \in 1..Len(similarity_predictions) :
       \E j \in 1..Len(ml_predictions) :
          /\ IsLastEntryOf(i, final_predictions[k].disease)
          /\ ml_predictions[j].disease = final_predictions[k].disease
          /\ similarity_predictions[i].description # ml_predictions[j].description
          /\ final_predictions[k].description = similarity_predictions[i].description
          /\ final_predictions[k].confidence # similarity_predictions[i].confidence
          /\ final_predictions[k].confidence # ml_predictions[j].confidence


(***************************************************************************)
(* Properties of the application (SpecApp)                                 *)
(***************************************************************************)
\* C15: with the catalog file missing, constructing HealthPredictor raises
\* FileNotFoundError, load_models yields no predictor, every run of main
\* returns before the analysis step and hybrid_prediction is never called.
MissingCatalogIsFatal ==
    ~catalog_present =>
        /\ HealthPredictor_init(catalog_present) = "FileNotFoundError"
        /\ construction \in {"not_run", "FileNotFoundError"}
        /\ models # "loaded"
        /\ engine_calls = 0
        /\ engine_result = None
        /\ st_predictions = None
        /\ page \in {"none", "login", "load_failed"}

\* a logged-in run against the missing catalog has ended at the load error
MissingCatalogWitness ==
    /\ ~catalog_present
    /\ authenticated
    /\ construction = "FileNotFoundError"
    /\ models = "none"
    /\ page = "load_failed"

\* C19: after a run that analysed non-blank symptoms and got the empty list
\* from the engine, the session holds the empty list and the error bundle,
\* the results area is not rendered and no exception ended the run; a
\* stored session row of an empty list has null top prediction, confidence
\* and severity.
EmptyPredictionPropagates ==
    /\ engine_result = Some(<<>>) =>
          /\ Strip(st_user_symptoms) # <<>>
          /\ st_predictions = Some(<<>>)
          /\ st_recommendations = Some(ErrorBundle)
          /\ page = "welcome"
          /\ app_raised = "none"
    /\ (session_record # None /\ session_record[1].predictions = <<>>) =>
          /\ session_record[1].top_prediction = None
          /\ session_record[1].top_confidence = None
          /\ session_record[1].severity_level = None

\* the empty analysis of a run, stored
EmptyPredictionWitness ==
    /\ engine_result = Some(<<>>)
    /\ st_predictions = Some(<<>>)
    /\ page = "welcome"
    /\ session_record # None
    /\ session_record[1].predictions = <<>>
    /\ session_record[1].recommendations = ErrorBundle
    /\ session_record[1].top_prediction = None


(***************************************************************************)
(* Properties of the single-method scorers (SpecHyb)                       *)
(***************************************************************************)
\* the catalog row a similarity entry was built from
RowOfEntry(entry) ==
    CHOOSE i \in 1..Len(df) : df[i].Symptoms = entry.matched_symptoms

\* the label-encoder index of a disease name
LabelIndex(name) ==
    CHOOSE j \in 1..Len(classes(df)) : classes(df)[j] = name

\* C21: each scorer returns its entries in descending order of score, rows
\* of equal similarity in catalog order and labels of equal probability in
\* label-encoding order.
ScorersSortedTiesInOriginalOrder ==
    pcHyb = "done" =>
        /\ \A k \in 1..(Len(similarity_predictions) - 1) :
              LET a == RowOfEntry(similarity_predictions[k])
                  b == RowOfEntry(similarity_predictions[k + 1])
              IN \/ similarities[a] > similarities[b]
                 \/ similarities[a] = similarities[b] /\ a < b
        /\ \A k \in 1..(Len(ml_predictions) - 1) :
              LET a == LabelIndex(ml_predictions[k].disease)
                  b == LabelIndex(ml_predictions[k + 1].disease)
              IN \/ probabilities[a] > probabilities[b]
                 \/ probabilities[a] = probabilities[b] /\ a < b


\* C22: the similarity scorer returns at most top_n entries, all of rows
\* with similarity > 0; the classifier scorer returns at most top_n entries,
\* all of labels with probability > 0.01; a scorer without a qualifying
\* entry returns the empty list.
ScorersFilterAndTruncate ==
    pcHyb = "done" =>
        /\ Len(similarity_predictions) <= top_n
        /\ \A k \in 1..Len(similarity_predictions) :
              similarities[RowOfEntry(similarity_predictions[k])] > 0
        /\ (\A i \in 1..Len(df) : similarities[i] = 0) => similarity_predictions = <<>>
        /\ Len(ml_predictions) <= top_n
        /\ \A k \in 1..Len(ml_predictions) :
              probabilities[LabelIndex(ml_predictions[k].disease)] > MlThreshold
        /\ (\A j \in 1..Len(probabilities) : probabilities[j] <= MlThreshold)
              => ml_predictions = <<>>

\* every row and label is within top_n, a row of similarity 0 and a label
\* of probability exactly 0.01 are left out
ScorersFilterWitness ==
    /\ pcHyb = "done"
    /\ top_n >= Len(df)
    /\ \E i \in 1..Len(df) : similarities[i] = 0
    /\ similarity_predictions # <<>>
    /\ Len(similarity_predictions) < Len(df)
    /\ \E j \in 1..Len(probabilities) : probabilities[j] = MlThreshold
    /\ ml_predictions # <<>>
    /\ Len(ml_predictions) < Len(probabilities)


(***************************************************************************)
(* Further properties of the recommendation deriver (SpecRec)              *)
(***************************************************************************)
\* the distinct diet phrases of a candidate list
DistinctDietPhrases(preds) ==
    UNION {Range(parse_recommendations(preds[i].diet_recommendations)) : i \in 1..Len(preds)}

\* the list ends with the first two generic dietary tips
EndsWithGenericDiet(list) ==
    /\ Len(list) >= 2
    /\ SubSeq(list, Len(list) - 1, Len(list)) = SubSeq(general_dietary_tips, 1, 2)

\* C23: the dietary list ends with the first 2 generic dietary tips if and
\* only if the candidates have fewer than 3 distinct diet phrases, repeated
\* phrases not counting towards the 3.
GenericDietIffFewDistinct ==
    (Returned /\ predictions # <<>>) =>
        (EndsWithGenericDiet(recommendations["dietary_recommendations"])
            <=> Cardinality(DistinctDietPhrases(predictions)) < 3)


\* every precaution phrase of the candidates, in order, each with the
\* warning marker
RECURSIVE MarkedPrecautions(_)
MarkedPrecautions(preds) ==
    IF preds = <<>> THEN <<>>
    ELSE LET phrases == parse_recommendations(Head(preds).precautions)
         IN [i \in 1..Len(phrases) |-> "(!) " \o phrases[i]]
            \o MarkedPrecautions(Tail(preds))

\* C24: the lifestyle list is every candidate precaution phrase with the
\* warning marker, followed by the first 4 general health tips when the
\* overall severity is Mild or Moderate and by the first 2 when it is
\* Severe.
LifestyleIsPrecautionsThenTips ==
    (Returned /\ predictions # <<>>) =>
        LET overall == recommendations["severity_assessment"].overall_severity
            tips == IF overall \in {"Mild", "Moderate"} THEN 4 ELSE 2
        IN /\ overall \in Tiers
           /\ recommendations["lifestyle_recommendations"] =
                 MarkedPrecautions(predictions) \o SubSeq(general_health_tips, 1, tips)

\* a Severe list with precaution phrases, followed by exactly 2 tips
LifestyleWitness ==
    /\ Returned
    /\ Len(predictions) >= 2
    /\ recommendations["severity_assessment"].overall_severity = "Severe"
    /\ Len(MarkedPrecautions(predictions)) >= 3
    /\ Len(recommendations["lifestyle_recommendations"]) =
          Len(MarkedPrecautions(predictions)) + 2


\* the keyword rules of the condition-specific warnings
WarningRules ==
    { [keywords |-> {"heart", "cardiac"},
       warning |-> "Chest pain radiating to arm, jaw, or back"],
      [keywords |-> {"stroke"},
       warning |-> "Sudden weakness, speech difficulty, or vision problems"],
      [keywords |-> {"asthma"},
       warning |-> "Severe difficulty breathing or wheezing"],
      [keywords |-> {"diabetes"},
       warning |-> "Extremely high or low blood sugar levels"] }

\* C25: a candidate gets the warning of every keyword rule its disease
\* name matches, and these warnings come before the first 5 general warning
\* signs.
EveryMatchingRuleWarns ==
    (Returned /\ predictions # <<>>) =>
        LET signs == recommendations["warning_signs"]
        IN /\ Len(signs) >= 5
           /\ SubSeq(signs, Len(signs) - 4, Len(signs)) = SubSeq(general_warning_signs, 1, 5)
           /\ \A i \in 1..Len(predictions) : \A rule \in WarningRules :
                 (\E kw \in rule.keywords : Contains(predictions[i].disease, kw))
                    => \E k \in 1..(Len(signs) - 5) : signs[k] = rule.warning


\* C26: generate_severity_assessment of the empty list returns, without
\* raising, an assessment with overall_severity 'Unknown' and the neutral
\* consult-a-provider recommendation.
EmptyListAssessedUnknown ==
    (pcRec = "assessed" /\ predictions = <<>>) =>
        /\ raised = "none"
        /\ assessment # None
        /\ assessment[1].overall_severity = "Unknown"
        /\ assessment[1].recommendation =
              "Unable to assess. Please consult a healthcare provider."
        /\ assessment[1].urgency = "Consult healthcare provider"

\* the assessment of the empty list has returned
EmptyListAssessedWitness ==
    /\ pcRec = "assessed"
    /\ predictions = <<>>
    /\ assessment # None
    /\ assessment[1].overall_severity \notin Tiers

\* C28: get_severity_warning depends only on the severity of the rank-0
\* candidate (the no-match message for the empty list), so for a list with
\* a Mild top candidate and a Severe lower one it returns the low-concern
\* message while the bundle's overall_severity for that list is Severe.
WarningFollowsTopCandidate ==
    pcRec = "warned" =>
        /\ severity_warning # None
        /\ predictions = <<>> => severity_warning[1] = "No matching conditions found."
        /\ predictions # <<>> =>
              severity_warning[1] =
                 get_severity_warning(<<[severity |-> predictions[1].severity]>>)
        /\ (/\ raised = "none"
            /\ predictions # <<>>
            /\ predictions[1].severity = "Mild"
            /\ \E i \in 2..Len(predictions) : predictions[i].severity = "Severe") =>
              /\ severity_warning[1] = severity_warnings["Mild"]
              /\ recommendations["severity_assessment"].overall_severity = "Severe"

\* a Mild candidate ranked above a Severe one: low concern from the
\* engine, Severe from the deriver
WarningFollowsTopWitness ==
    /\ pcRec = "warned"
    /\ raised = "none"
    /\ Len(predictions) >= 2
    /\ predictions[1].severity = "Mild"
    /\ predictions[2].severity = "Severe"
    /\ severity_warning = Some(severity_warnings["Mild"])
    /\ recommendations["severity_assessment"].overall_severity = "Severe"


(***************************************************************************)
(* Further properties of the hybrid prediction engine (SpecHyb)            *)
(***************************************************************************)
\* C27: the list hybrid_prediction returns never has the same disease name
\* twice, also when both scorers produced the disease or the similarity
\* results carry the name more than once.
NoDiseaseTwice ==
    pcHyb = "done" =>
        \A k \in 1..Len(final_predictions) : \A l \in 1..Len(final_predictions) :
            final_predictions[k].disease = final_predictions[l].disease => k = l

\* a name twice in the similarity results and once in the classifier's,
\* returned once
NoDiseaseTwiceWitness ==
    /\ pcHyb = "done"
    /\ \E i \in 1..Len(similarity_predictions) :
       \E j \in 1..Len(similarity_predictions) :
          /\ i # j
          /\ similarity_predictions[i].disease = similarity_predictions[j].disease
          /\ InMl(similarity_predictions[i].disease)
          /\ \E k \in 1..Len(final_predictions) :
                final_predictions[k].disease = similarity_predictions[i].disease


(***************************************************************************)
(* Properties of the login session table (SpecSess)                        *)
(***************************************************************************)
\* C29: a token that invalidate_session has invalidated, or that
\* validate_session has found expired and deactivated, is never valid
\* again: validate_session returns None for it in every later state.
DeadTokenStaysInvalid ==
    /\ \A t \in dead : validate_session(t).value = None
    /\ (auth_returned.op = "validate_session" /\ auth_returned.arg \in dead)
          => auth_returned.user = None

\* a dead token whose row cleanup has deleted was validated again, with the
\* clock back before its expiry, while a newer token is valid
DeadTokenWitness ==
    /\ auth_returned.op = "validate_session"
    /\ auth_returned.arg \in dead
    /\ auth_returned.user = None
    /\ ~\E s \in user_sessions : s.session_token = auth_returned.arg
    /\ auth_now = 0
    /\ \E t \in 1..MaxSessions : validate_session(t).value # None

(***************************************************************************)
(* Properties of signup and login (SpecAuth)                               *)
(***************************************************************************)
LastLogin == auth_returned.arg

\* C30, as stated: for an account, a login with any case variant of its
\* email and its password succeeds, and a login with its username finds
\* the account only when the username equals its own lowercase form.
LoginFindsLowercaseUsernameOnly ==
    auth_returned.op = "login" =>
        \A i \in 1..Len(users) :
            /\ (/\ Lower(Strip(LastLogin.identifier)) = users[i].email
                /\ verify_password(LastLogin.password, users[i].password_hash))
                  => (auth_returned.success /\ auth_returned.user = Some(users[i].id))
            /\ (/\ Strip(LastLogin.identifier) = users[i].username
                /\ auth_returned.user = Some(users[i].id))
                  => users[i].username = Lower(users[i].username)

\* C30, amended: a login with the username also finds the account when the
\* lowercase form of the username is the account's email.
LoginFindsLowercaseUsernameOrOwnEmail ==
    auth_returned.op = "login" =>
        \A i \in 1..Len(users) :
            /\ (/\ Lower(Strip(LastLogin.identifier)) = users[i].email
                /\ verify_password(LastLogin.password, users[i].password_hash))
                  => (auth_returned.success /\ auth_returned.user = Some(users[i].id))
            /\ (/\ Strip(LastLogin.identifier) = users[i].username
                /\ auth_returned.user = Some(users[i].id))
                  => \/ users[i].username = Lower(users[i].username)
                     \/ Lower(users[i].username) = users[i].email

\* an account with an uppercase username: a login with its username and
\* password has just found nobody, although an earlier login by email
\* opened a session for it
LoginWitness ==
    /\ auth_returned.op = "login"
    /\ \E i \in 1..Len(users) :
          /\ users[i].username = <<"F">>
          /\ LastLogin.identifier = <<"F">>
          /\ verify_password(LastLogin.password, users[i].password_hash)
          /\ ~auth_returned.success
          /\ auth_returned.user = None
          /\ \E s \in user_sessions : s.user_id = users[i].id


====
